---- MODULE Spec2Model ----
(***************************************************************************)
(* Search backend of app.py: the request handler api_search_endpoint, the   *)
(* dispatcher perform_search with its time-windowed session cache, the      *)
(* three provider adapters and the mock generator search_fallback.          *)
(*                                                                         *)
(* Strings are TLA+ strings, so the cache key and the mock titles are       *)
(* built by the same concatenations as the f-strings of the source.  Time   *)
(* is time.time() in whole seconds.  A float score is written as the text   *)
(* of its literal ("0.5").                                                  *)
(***************************************************************************)
EXTENDS Integers, Sequences, FiniteSets, TLC

(***************************************************************************)
(* Bounds of the model.                                                    *)
(***************************************************************************)
MaxTime == 60       \* the clock stops advancing here (seconds)
MaxCalls == 3       \* requests handled in one behaviour of Spec
MaxRuns == 2        \* requests handled in one behaviour of EndpointSpec
MaxItems == 11      \* longest item list of a provider payload (AdapterSpec)
MaxTopics == 3      \* longest RelatedTopics list of a payload (AdapterSpec)

(***************************************************************************)
(* Python helpers.                                                         *)
(***************************************************************************)
\* dict.get(key, default)
Get(d, key, default) == IF key \in DOMAIN d THEN d[key] ELSE default

\* min(a, b)
Min(a, b) == IF a < b THEN a ELSE b

\* s[:k], with Python's meaning of a negative k (drop the last -k elements)
SliceTo(s, k) ==
    IF k >= 0 THEN SubSeq(s, 1, Min(k, Len(s)))
              ELSE SubSeq(s, 1, Len(s) + k)

\* " - ".join(parts): a topic text is kept as its parts around " - "
RECURSIVE JoinDash(_)
JoinDash(parts) ==
    IF Len(parts) = 0 THEN ""
    ELSE IF Len(parts) = 1 THEN parts[1]
    ELSE parts[1] \o " - " \o JoinDash(Tail(parts))

\* datetime.now().strftime("%Y-%m-%d") at clock value t
Today(t) == "day" \o ToString(t \div (24 * 60 * 60))

\* the response envelope every adapter returns
Envelope(query, results, processing_time) ==
    [status |-> "success",
     query |-> query,
     results_count |-> Len(results),
     processing_time |-> processing_time,
     results |-> results]

(***************************************************************************)
(* Outbound HTTP.  A reply is what the provider does with one request:      *)
(*   kind = "silent"  it never answers                                      *)
(*   kind = "error"   requests raises (connection error)                    *)
(*   kind = "http"    a response with status_code and a body; the body is   *)
(*                    "invalid" (response.json() raises), "nondict" (JSON   *)
(*                    that is no object, so .get raises) or "dict".         *)
(* A request that carries a timeout turns silence into a raised Timeout;    *)
(* one without a timeout waits forever.                                     *)
(***************************************************************************)
HttpCall(to, params, has_timeout, tmo) ==
    [to |-> to, params |-> params, has_timeout |-> has_timeout, timeout |-> tmo]

Blocks(reply, call) == reply.kind = "silent" /\ ~call.has_timeout

Raises(reply, call) ==
    \/ reply.kind = "error"
    \/ reply.kind = "silent" /\ call.has_timeout

\* what an adapter hands back: the envelope, the requests it issued, and
\* whether it returned at all
Returned(result, calls) == [done |-> TRUE, result |-> result, calls |-> calls]
Stuck(calls) == [done |-> FALSE, result |-> [status |-> "none"], calls |-> calls]

(***************************************************************************)
(* Mock generator.                                                         *)
(***************************************************************************)
\* faulty variant: the records are numbered from 0
MockRecord_zero_based(i, query, language, date) ==
    [title |-> "Result " \o ToString(i - 1) \o " for '" \o query \o "'",
     url |-> "https://example.com/result" \o ToString(i - 1),
     snippet |-> "This is a mock result " \o ToString(i - 1) \o " for the query '"
                 \o query \o "'. This is generated as a fallback when no search API is available.",
     source |-> "mock",
     language |-> language,
     credibility_score |-> "0.5",
     published_date |-> date]

MockRecord(i, query, language, date) ==
    [title |-> "Result " \o ToString(i) \o " for '" \o query \o "'",
     url |-> "https://example.com/result" \o ToString(i),
     snippet |-> "This is a mock result " \o ToString(i) \o " for the query '"
                 \o query \o "'. This is generated as a fallback when no search API is available.",
     source |-> "mock",
     language |-> language,
     credibility_score |-> "0.5",
     published_date |-> date]

\* faulty variant: results_count reports the number of results asked for
search_fallback_requested_count(query, language, max_results, date) ==
    LET n == Min(max_results, 10)
        results == [i \in 1..n |-> MockRecord(i, query, language, date)]
    IN  [Envelope(query, results, "0.1s") EXCEPT !.results_count = max_results]

search_fallback(query, language, max_results, date) ==
    LET n == Min(max_results, 10)
        results == [i \in 1..n |-> MockRecord(i, query, language, date)]
    IN  Envelope(query, results, "0.1s")

(***************************************************************************)
(* Generic adapter (DuckDuckGo zero-click).                                *)
(***************************************************************************)
AbstractRecord(data, language, date) ==
    [title |-> Get(data, "Heading", "Abstract"),
     url |-> Get(data, "AbstractURL", ""),
     snippet |-> Get(data, "AbstractText", ""),
     source |-> "duckduckgo",
     language |-> language,
     credibility_score |-> "0.8",
     published_date |-> date]

\* topic.Text is the sequence of its parts around " - "
TopicRecord(topic, language, date) ==
    [title |-> IF Len(topic.Text) > 1 THEN topic.Text[1] ELSE JoinDash(topic.Text),
     url |-> Get(topic, "FirstURL", ""),
     snippet |-> JoinDash(topic.Text),
     source |-> "duckduckgo",
     language |-> language,
     credibility_score |-> "0.7",
     published_date |-> date]

RECURSIVE TopicRecords(_, _, _)
TopicRecords(topics, language, date) ==
    IF topics = <<>> THEN <<>>
    ELSE LET topic == Head(topics)
             rest == TopicRecords(Tail(topics), language, date)
         IN  IF "Text" \in DOMAIN topic /\ "FirstURL" \in DOMAIN topic
             THEN <<TopicRecord(topic, language, date)>> \o rest
             ELSE rest

FreeResults(data, language, max_results, date) ==
    LET abstract == IF Get(data, "AbstractText", "") # ""
                    THEN <<AbstractRecord(data, language, date)>>
                    ELSE <<>>
        topics == SliceTo(Get(data, "RelatedTopics", <<>>), max_results - 1)
    IN  abstract \o TopicRecords(topics, language, date)

search_free_api(query, language, max_results, env) ==
    LET date == Today(env.now)
        mock == search_fallback(query, language, max_results, date)
        call == HttpCall("generic", [q |-> query, format |-> "json"], TRUE, env.timeout)
        reply == env.reply
    IN  IF env.rapidapi_key = "" THEN Returned(mock, <<>>)
        ELSE IF Raises(reply, call) THEN Returned(mock, <<call>>)
        ELSE IF reply.status_code = 200
             THEN IF reply.body.kind # "dict" THEN Returned(mock, <<call>>)
                  ELSE Returned(Envelope(query,
                                         FreeResults(reply.body.data, language, max_results, date),
                                         "1.0s"),
                                <<call>>)
        ELSE Returned(mock, <<call>>)

(***************************************************************************)
(* Commercial adapter (Google Custom Search).                              *)
(***************************************************************************)
GoogleRecord(item, language, date) ==
    [title |-> Get(item, "title", ""),
     url |-> Get(item, "link", ""),
     snippet |-> Get(item, "snippet", ""),
     source |-> "google",
     language |-> language,
     credibility_score |-> "0.9",
     published_date |-> date]

GoogleResults(data, language, date) ==
    LET items == Get(data, "items", <<>>)
    IN  [i \in 1..Len(items) |-> GoogleRecord(items[i], language, date)]

\* faulty variant: a non-200 response is handed to the caller as an error
search_google_api_propagates(query, language, max_results, env) ==
    LET date == Today(env.now)
        mock == search_fallback(query, language, max_results, date)
        call == HttpCall("commercial",
                        [key |-> env.google_api_key, cx |-> env.google_cx, q |-> query,
                         lr |-> "lang_" \o language, num |-> Min(max_results, 10)],
                        TRUE, env.timeout)
        reply == env.reply
    IN  IF env.google_api_key = "" \/ env.google_cx = "" THEN Returned(mock, <<>>)
        ELSE IF Raises(reply, call) THEN Returned(mock, <<call>>)
        ELSE IF reply.status_code = 200
             THEN IF reply.body.kind # "dict" THEN Returned(mock, <<call>>)
                  ELSE Returned(Envelope(query,
                                         GoogleResults(reply.body.data, language, date),
                                         "1.0s"),
                                <<call>>)
        ELSE Returned([status |-> "error", message |-> "Google API Error"], <<call>>)

search_google_api(query, language, max_results, env) ==
    LET date == Today(env.now)
        mock == search_fallback(query, language, max_results, date)
        call == HttpCall("commercial",
                        [key |-> env.google_api_key, cx |-> env.google_cx, q |-> query,
                         lr |-> "lang_" \o language, num |-> Min(max_results, 10)],
                        TRUE, env.timeout)
        reply == env.reply
    IN  IF env.google_api_key = "" \/ env.google_cx = "" THEN Returned(mock, <<>>)
        ELSE IF Raises(reply, call) THEN Returned(mock, <<call>>)
        ELSE IF reply.status_code = 200
             THEN IF reply.body.kind # "dict" THEN Returned(mock, <<call>>)
                  ELSE Returned(Envelope(query,
                                         GoogleResults(reply.body.data, language, date),
                                         "1.0s"),
                                <<call>>)
        ELSE Returned(mock, <<call>>)

(***************************************************************************)
(* Regional adapter (Baidu): token request, then search request.           *)
(***************************************************************************)
BaiduRecord(item, language, date) ==
    [title |-> Get(item, "title", ""),
     url |-> Get(item, "url", ""),
     snippet |-> Get(item, "content", ""),
     source |-> "baidu",
     language |-> language,
     credibility_score |-> "0.8",
     published_date |-> date]

BaiduResults(data, language, date) ==
    LET items == Get(data, "result", <<>>)
    IN  [i \in 1..Len(items) |-> BaiduRecord(items[i], language, date)]

\* requests.post(token_url): issued without a timeout argument
BaiduTokenCall(env) ==
    HttpCall("token",
             [grant_type |-> "client_credentials", client_id |-> env.baidu_api_key,
              client_secret |-> env.baidu_secret_key],
             FALSE, 0)

\* token_response.json().get("access_token"): None when the key is absent
AccessToken(token_reply) == Get(token_reply.body.data, "access_token", "None")

\* faulty variant: the status of the token response is not examined, so the
\* search request follows a refused token request
search_baidu_api_unchecked_token(query, language, max_results, env) ==
    LET date == Today(env.now)
        mock == search_fallback(query, language, max_results, date)
        token_call == BaiduTokenCall(env)
        token_reply == env.token_reply
        call == HttpCall("regional",
                        [access_token |-> IF token_reply.kind = "http" /\ token_reply.body.kind = "dict"
                                          THEN AccessToken(token_reply) ELSE "None",
                         query |-> query, num |-> Min(max_results, 10)],
                        TRUE, env.timeout)
        reply == env.reply
    IN  IF env.baidu_api_key = "" \/ env.baidu_secret_key = "" THEN Returned(mock, <<>>)
        ELSE IF Blocks(token_reply, token_call) THEN Stuck(<<token_call>>)
        ELSE IF Raises(token_reply, token_call) THEN Returned(mock, <<token_call>>)
        ELSE IF Raises(reply, call) THEN Returned(mock, <<token_call, call>>)
        ELSE IF reply.status_code = 200
             THEN IF reply.body.kind # "dict" THEN Returned(mock, <<token_call, call>>)
                  ELSE Returned(Envelope(query,
                                         BaiduResults(reply.body.data, language, date),
                                         "1.0s"),
                                <<token_call, call>>)
        ELSE Returned(mock, <<token_call, call>>)

search_baidu_api(query, language, max_results, env) ==
    LET date == Today(env.now)
        mock == search_fallback(query, language, max_results, date)
        token_call == BaiduTokenCall(env)
        token_reply == env.token_reply
        call == HttpCall("regional",
                        [access_token |-> IF token_reply.kind = "http" /\ token_reply.body.kind = "dict"
                                          THEN AccessToken(token_reply) ELSE "None",
                         query |-> query, num |-> Min(max_results, 10)],
                        TRUE, env.timeout)
        reply == env.reply
    IN  IF env.baidu_api_key = "" \/ env.baidu_secret_key = "" THEN Returned(mock, <<>>)
        ELSE IF Blocks(token_reply, token_call) THEN Stuck(<<token_call>>)
        ELSE IF Raises(token_reply, token_call) THEN Returned(mock, <<token_call>>)
        ELSE IF token_reply.status_code # 200 THEN Returned(mock, <<token_call>>)
        ELSE IF token_reply.body.kind # "dict" THEN Returned(mock, <<token_call>>)
        ELSE IF Raises(reply, call) THEN Returned(mock, <<token_call, call>>)
        ELSE IF reply.status_code = 200
             THEN IF reply.body.kind # "dict" THEN Returned(mock, <<token_call, call>>)
                  ELSE Returned(Envelope(query,
                                         BaiduResults(reply.body.data, language, date),
                                         "1.0s"),
                                <<token_call, call>>)
        ELSE Returned(mock, <<token_call, call>>)

(***************************************************************************)
(* Session cache.  An entry is (timestamp, data); a lookup that finds       *)
(* nothing fresh returns None, written [some |-> FALSE].                    *)
(***************************************************************************)
None == [some |-> FALSE]
Some(data) == [some |-> TRUE, data |-> data]

EmptyCache == [key \in {} |-> [timestamp |-> 0, data |-> [status |-> "none"]]]

\* faulty variant: an entry whose age equals the duration still counts as fresh
get_from_cache_inclusive(cache, key, t, duration) ==
    IF key \in DOMAIN cache
    THEN IF t - cache[key].timestamp <= duration * 60
         THEN Some(cache[key].data)
         ELSE None
    ELSE None

get_from_cache(cache, key, t, duration) ==
    IF key \in DOMAIN cache
    THEN IF t - cache[key].timestamp < duration * 60
         THEN Some(cache[key].data)
         ELSE None
    ELSE None

\* faulty variant: only responses built from a provider payload are stored
save_to_cache_real_only(cache, key, data, t) ==
    IF data.processing_time = "0.1s" THEN cache
    ELSE [k \in DOMAIN cache \cup {key} |->
             IF k = key THEN [timestamp |-> t, data |-> data] ELSE cache[k]]

save_to_cache(cache, key, data, t) ==
    [k \in DOMAIN cache \cup {key} |->
        IF k = key THEN [timestamp |-> t, data |-> data] ELSE cache[k]]

\* f"{search_api}:{query}:{language}:{max_results}"
CacheKey(api, query, language, max_results) ==
    api \o ":" \o query \o ":" \o language \o ":" \o ToString(max_results)

(***************************************************************************)
(* Dispatcher.                                                             *)
(***************************************************************************)
Providers == {"Free Search API", "Google Search API", "Baidu Search API"}

\* faulty variant: every provider is served by the generic adapter
Dispatch_generic_only(api, query, language, max_results, env) ==
    search_free_api(query, language, max_results, env)

\* the if/elif/else chain of perform_search
Dispatch(api, query, language, max_results, env) ==
    IF api = "Google Search API" THEN search_google_api(query, language, max_results, env)
    ELSE IF api = "Baidu Search API" THEN search_baidu_api(query, language, max_results, env)
    ELSE search_free_api(query, language, max_results, env)

\* the outcome of one invocation: whether it returned, what it returned, the
\* requests it issued, whether the lookup hit, and the cache it leaves
Outcome(done, result, calls, hit, cache) ==
    [done |-> done, result |-> result, calls |-> calls, hit |-> hit, cache |-> cache]

\* faulty variant: a hit stores the entry again, with the current time
perform_search_refreshing(query, language, max_results, api, duration, cache, env) ==
    LET cache_key == CacheKey(api, query, language, max_results)
        cached_result == get_from_cache(cache, cache_key, env.now, duration)
        fetched == Dispatch(api, query, language, max_results, env)
    IN  IF cached_result.some
        THEN Outcome(TRUE, cached_result.data, <<>>, TRUE,
                     save_to_cache(cache, cache_key, cached_result.data, env.now))
        ELSE IF fetched.done
             THEN Outcome(TRUE, fetched.result, fetched.calls, FALSE,
                          save_to_cache(cache, cache_key, fetched.result, env.now))
             ELSE Outcome(FALSE, fetched.result, fetched.calls, FALSE, cache)

perform_search(query, language, max_results, api, duration, cache, env) ==
    LET cache_key == CacheKey(api, query, language, max_results)
        cached_result == get_from_cache(cache, cache_key, env.now, duration)
        fetched == Dispatch(api, query, language, max_results, env)
    IN  IF cached_result.some
        THEN Outcome(TRUE, cached_result.data, <<>>, TRUE, cache)
        ELSE IF fetched.done
             THEN Outcome(TRUE, fetched.result, fetched.calls, FALSE,
                          save_to_cache(cache, cache_key, fetched.result, env.now))
             ELSE Outcome(FALSE, fetched.result, fetched.calls, FALSE, cache)

QueryRequired == [status |-> "error", message |-> "Query parameter is required"]

\* request_data.get(...) with the handler's defaults
Args(request_data) ==
    [query |-> Get(request_data, "query", ""),
     language |-> Get(request_data, "language", "en"),
     max_results |-> Get(request_data, "max_results", 10)]

\* faulty variant: the query is not validated
api_search_endpoint_unchecked(request_data, api, duration, cache, env) ==
    LET a == Args(request_data)
    IN  perform_search(a.query, a.language, a.max_results, api, duration, cache, env)

api_search_endpoint(request_data, api, duration, cache, env) ==
    LET a == Args(request_data)
    IN  IF a.query = ""
        THEN Outcome(TRUE, QueryRequired, <<>>, FALSE, cache)
        ELSE perform_search(a.query, a.language, a.max_results, api, duration, cache, env)

(***************************************************************************)
(* State.                                                                  *)
(*   search_api, cache_duration, timeout                                    *)
(*                  the sidebar values as bound by the latest script run    *)
(*   now            time.time()                                             *)
(*   search_cache   st.session_state.search_cache                           *)
(*   pc             "idle", or "blocked" inside a request that never ends   *)
(*   op, args, at   the last operation invoked, its resolved arguments and  *)
(*                  the clock value it ran at                               *)
(*   response, calls, hit   what it returned, the outbound requests it      *)
(*                  issued, and whether its cache lookup hit                *)
(*   ncalls         operations invoked so far                               *)
(*   outside        the credentials and provider replies the last operation *)
(*                  ran against                                             *)
(***************************************************************************)
VARIABLES search_api, cache_duration, timeout, now, search_cache, pc,
          op, args, at, response, calls, hit, ncalls, outside

vars == <<search_api, cache_duration, timeout, now, search_cache, pc,
          op, args, at, response, calls, hit, ncalls, outside>>

config == <<search_api, cache_duration, timeout>>
observed == <<op, args, at, response, calls, hit, ncalls, outside>>

Init ==
    /\ search_api = "Free Search API"
    /\ cache_duration = 60
    /\ timeout = 10
    /\ now = 0
    /\ search_cache = EmptyCache
    /\ pc = "idle"
    /\ op = "none"
    /\ args = Args([sources |-> <<"web">>])
    /\ at = 0
    /\ response = [status |-> "none"]
    /\ calls = <<>>
    /\ hit = FALSE
    /\ ncalls = 0
    /\ outside = [seen |-> FALSE]

(***************************************************************************)
(* The outside world of one script run: the credentials found and what the  *)
(* providers reply.                                                         *)
(***************************************************************************)
AllCredentials ==
    [rapidapi_key |-> "k", google_api_key |-> "k", google_cx |-> "cx",
     baidu_api_key |-> "k", baidu_secret_key |-> "s"]
NoCredentials ==
    [rapidapi_key |-> "", google_api_key |-> "", google_cx |-> "",
     baidu_api_key |-> "", baidu_secret_key |-> ""]

Silent == [kind |-> "silent"]
ConnectionError == [kind |-> "error"]
Http(status_code, body) == [kind |-> "http", status_code |-> status_code, body |-> body]
InvalidBody == [kind |-> "invalid"]
NonDictBody == [kind |-> "nondict"]
DictBody(data) == [kind |-> "dict", data |-> data]
TokenGranted == Http(200, DictBody([access_token |-> "tok"]))

World(credentials, token_reply, reply) ==
    [credentials |-> credentials, token_reply |-> token_reply, reply |-> reply]

Env(world, tmo, t) ==
    [rapidapi_key |-> world.credentials.rapidapi_key,
     google_api_key |-> world.credentials.google_api_key,
     google_cx |-> world.credentials.google_cx,
     baidu_api_key |-> world.credentials.baidu_api_key,
     baidu_secret_key |-> world.credentials.baidu_secret_key,
     token_reply |-> world.token_reply,
     reply |-> world.reply,
     timeout |-> tmo,
     now |-> t]

\* one JSON object serves all three adapters, each reading its own keys
PayloadA ==
    [AbstractText |-> "abstract", Heading |-> "A", AbstractURL |-> "http://a",
     RelatedTopics |-> << [Text |-> <<"T1", "one">>, FirstURL |-> "http://t1"] >>,
     items |-> << [title |-> "g1", link |-> "http://g1", snippet |-> "s1"] >>,
     result |-> << [title |-> "b1", url |-> "http://b1", content |-> "c1"] >>]
PayloadB ==
    [RelatedTopics |-> << [Text |-> <<"T2">>, FirstURL |-> "http://t2"], [Text |-> <<"T3">>] >>,
     items |-> << [title |-> "g2"], [link |-> "http://g3"] >>,
     result |-> << [url |-> "http://b2"], [content |-> "c3"] >>]

Widgets(apis, durations, timeouts) ==
    [search_api : apis, cache_duration : durations, timeout : timeouts]

(***************************************************************************)
(* Actions.                                                                *)
(***************************************************************************)
\* One script run that handles an API request: the sidebar widgets are read
\* into search_api, cache_duration and timeout, then api_search_endpoint runs.
ScriptRun(widgets, request_data, world) ==
    /\ pc = "idle"
    /\ search_api' = widgets.search_api
    /\ cache_duration' = widgets.cache_duration
    /\ timeout' = widgets.timeout
    /\ \E out \in {api_search_endpoint(request_data, widgets.search_api,
                                        widgets.cache_duration, search_cache,
                                        Env(world, widgets.timeout, now))} :
           /\ pc' = IF out.done THEN "idle" ELSE "blocked"
           /\ response' = out.result
           /\ calls' = out.calls
           /\ hit' = out.hit
           /\ search_cache' = out.cache
    /\ op' = "api_search_endpoint"
    /\ args' = Args(request_data)
    /\ at' = now
    /\ ncalls' = ncalls + 1
    /\ outside' = world
    /\ UNCHANGED now

\* time.time() advances
Tick(d) ==
    /\ now + d <= MaxTime
    /\ now' = now + d
    /\ UNCHANGED <<config, search_cache, pc, observed>>

TickSteps == {30}

(***************************************************************************)
(* Spec: the cache over several requests.  Few request bodies and worlds,   *)
(* every provider and cache duration, MaxCalls requests.                    *)
(***************************************************************************)
RequestData ==
    { [sources |-> <<"web">>],
      [query |-> "a", max_results |-> 1],
      [query |-> "a:b", language |-> "en", max_results |-> 2],
      [query |-> "a", language |-> "b:en", max_results |-> 2] }

Worlds ==
    { World(NoCredentials, ConnectionError, ConnectionError),
      World(AllCredentials, TokenGranted, Http(500, InvalidBody)),
      World(AllCredentials, TokenGranted, Http(200, DictBody(PayloadA))) }

Next ==
    \/ /\ ncalls < MaxCalls
       /\ \E widgets \in Widgets(Providers, {0, 1, 60}, {10}),
             request_data \in RequestData, world \in Worlds :
                 ScriptRun(widgets, request_data, world)
    \/ \E d \in TickSteps : Tick(d)

Spec == Init /\ [][Next]_vars

(***************************************************************************)
(* EndpointSpec: the request handler over every kind of request body,       *)
(* credential set and provider reply, MaxRuns requests.                     *)
(***************************************************************************)
GoogleKeyOnly ==
    [rapidapi_key |-> "k", google_api_key |-> "k", google_cx |-> "",
     baidu_api_key |-> "k", baidu_secret_key |-> ""]

EndpointRequests ==
    { [sources |-> <<"web">>],
      [language |-> "zh", max_results |-> 2],
      [query |-> "", language |-> "en", max_results |-> 2],
      [query |-> "a"],
      [query |-> "a", language |-> "zh", max_results |-> 0 - 1],
      [query |-> "a", language |-> "zh", max_results |-> 0],
      [query |-> "a", language |-> "zh", max_results |-> 50] }

Replies ==
    { Silent, ConnectionError, Http(500, InvalidBody), Http(200, InvalidBody),
      Http(200, NonDictBody), Http(200, DictBody(PayloadA)), Http(200, DictBody(PayloadB)) }

FailedTokenReplies ==
    { Silent, ConnectionError, Http(401, InvalidBody), Http(200, InvalidBody),
      Http(200, NonDictBody) }

EndpointWorlds ==
    { World(NoCredentials, ConnectionError, ConnectionError),
      World(GoogleKeyOnly, ConnectionError, ConnectionError) }
    \cup { World(AllCredentials, token_reply, ConnectionError) : token_reply \in FailedTokenReplies }
    \cup { World(AllCredentials, TokenGranted, reply) : reply \in Replies }

EndpointNext ==
    \/ /\ ncalls < MaxRuns
       /\ \E widgets \in Widgets(Providers, {60}, {10, 30}),
             request_data \in EndpointRequests, world \in EndpointWorlds :
                 ScriptRun(widgets, request_data, world)
    \/ \E d \in TickSteps : Tick(d)

EndpointSpec == Init /\ [][EndpointNext]_vars

(***************************************************************************)
(* AdapterSpec: the mock generator and the three adapters called directly,  *)
(* over payloads of every length up to MaxItems and MaxTopics.              *)
(***************************************************************************)
\* a direct call of one adapter, the first operation of a behaviour; the
\* adapters keep no state of their own and the cache is not involved
AdapterCall(name, query, language, max_results, world, out) ==
    /\ pc = "idle"
    /\ op = "none"
    /\ pc' = IF out.done THEN "idle" ELSE "blocked"
    /\ op' = name
    /\ args' = [query |-> query, language |-> language, max_results |-> max_results]
    /\ at' = now
    /\ response' = out.result
    /\ calls' = out.calls
    /\ hit' = FALSE
    /\ outside' = world
    /\ UNCHANGED <<config, now, search_cache, ncalls>>

CallFallback(query, language, max_results) ==
    AdapterCall("search_fallback", query, language, max_results,
                World(NoCredentials, ConnectionError, ConnectionError),
                Returned(search_fallback(query, language, max_results, Today(now)), <<>>))

CallFree(query, language, max_results, world) ==
    AdapterCall("search_free_api", query, language, max_results, world,
                search_free_api(query, language, max_results, Env(world, timeout, now)))

CallGoogle(query, language, max_results, world) ==
    AdapterCall("search_google_api", query, language, max_results, world,
                search_google_api(query, language, max_results, Env(world, timeout, now)))

CallBaidu(query, language, max_results, world) ==
    AdapterCall("search_baidu_api", query, language, max_results, world,
                search_baidu_api(query, language, max_results, Env(world, timeout, now)))

\* provider payloads: the i-th entry's shape depends on i, so that entries
\* differ and some lack fields
TopicAt(i) ==
    IF i % 3 = 0 THEN [Text |-> <<"T" \o ToString(i)>>]
    ELSE IF i % 3 = 1 THEN [Text |-> <<"T" \o ToString(i), "about">>, FirstURL |-> "http://t" \o ToString(i)]
    ELSE [Text |-> <<"T" \o ToString(i)>>, FirstURL |-> "http://t" \o ToString(i)]

GoogleItemAt(i) ==
    IF i % 3 = 0 THEN [kind |-> "customsearch#result"]
    ELSE IF i % 3 = 1 THEN [title |-> "g" \o ToString(i), link |-> "http://g" \o ToString(i), snippet |-> "s"]
    ELSE [title |-> "g" \o ToString(i)]

BaiduItemAt(i) ==
    IF i % 3 = 0 THEN [id |-> ToString(i)]
    ELSE IF i % 3 = 1 THEN [title |-> "b" \o ToString(i), url |-> "http://b" \o ToString(i), content |-> "c"]
    ELSE [content |-> "c" \o ToString(i)]

FreePayloads ==
    { [RelatedTopics |-> [i \in 1..n |-> TopicAt(i)]] : n \in 0..MaxTopics }
    \cup { [AbstractText |-> "abstract", RelatedTopics |-> [i \in 1..n |-> TopicAt(i)]] :
             n \in 0..MaxTopics }
    \cup { [AbstractText |-> "abstract", Heading |-> "H", AbstractURL |-> "http://h"],
           [AbstractText |-> "", Heading |-> "H"] }

GooglePayloads ==
    { [items |-> [i \in 1..n |-> GoogleItemAt(i)]] : n \in 0..MaxItems }
    \cup { [searchInformation |-> "none"] }

BaiduPayloads ==
    { [result |-> [i \in 1..n |-> BaiduItemAt(i)]] : n \in 0..MaxItems }
    \cup { [log_id |-> "none"] }

Failures == { Silent, ConnectionError, Http(500, InvalidBody), Http(200, InvalidBody),
              Http(200, NonDictBody) }

AdapterWorlds(payloads) ==
    { World(NoCredentials, ConnectionError, ConnectionError),
      World(GoogleKeyOnly, ConnectionError, ConnectionError) }
    \cup { World(AllCredentials, token_reply, ConnectionError) : token_reply \in FailedTokenReplies }
    \cup { World(AllCredentials, TokenGranted, reply) : reply \in Failures }
    \cup { World(AllCredentials, TokenGranted, Http(200, DictBody(data))) : data \in payloads }

AdapterQueries == {"a", "climate policy"}
AdapterLanguages == {"en", "zh"}
AdapterMaxResults == {0 - 1, 0, 1, 2, 5, 10, 50}

\* the timeout setting and the clock at the start (two different days)
AdapterInit ==
    /\ search_api = "Free Search API"
    /\ cache_duration = 60
    /\ timeout \in {10, 30}
    /\ now \in {0, 24 * 60 * 60}
    /\ search_cache = EmptyCache
    /\ pc = "idle"
    /\ op = "none"
    /\ args = Args([sources |-> <<"web">>])
    /\ at = now
    /\ response = [status |-> "none"]
    /\ calls = <<>>
    /\ hit = FALSE
    /\ ncalls = 0
    /\ outside = [seen |-> FALSE]

AdapterNext ==
    \E query \in AdapterQueries, language \in AdapterLanguages,
       max_results \in AdapterMaxResults :
        \/ CallFallback(query, language, max_results)
        \/ \E world \in AdapterWorlds(FreePayloads) :
               CallFree(query, language, max_results, world)
        \/ \E world \in AdapterWorlds(GooglePayloads) :
               CallGoogle(query, language, max_results, world)
        \/ \E world \in AdapterWorlds(BaiduPayloads) :
               CallBaidu(query, language, max_results, world)

AdapterSpec == AdapterInit /\ [][AdapterNext]_vars

(***************************************************************************)
(* Properties.                                                             *)
(***************************************************************************)
\* the last operation was a request with a non-empty query, and it returned
Searched == op = "api_search_endpoint" /\ args.query # "" /\ pc = "idle"

\* the step is a request handled by api_search_endpoint
Handles == op' = "api_search_endpoint" /\ ncalls' = ncalls + 1

\* the cache key of the last request
LastKey == CacheKey(search_api, args.query, args.language, args.max_results)

EnvelopeFields == {"status", "query", "results_count", "processing_time", "results"}

\* C1: every request with a non-empty query that returns, returns a success
\* envelope, whatever the provider, the credentials, max_results and the
\* provider's reply (no credentials, non-200, exception or timeout, bad body).
C1_SuccessForNonEmptyQuery ==
    Searched => /\ DOMAIN response = EnvelopeFields
                /\ response.status = "success"

\* a regional search whose second request failed came back as mock results
C1_Witness ==
    /\ Searched /\ ~hit
    /\ search_api = "Baidu Search API"
    /\ Len(calls) = 2
    /\ response.status = "success"
    /\ response.results_count = 10
    /\ response.results[1].source = "mock"

\* C2: a request whose query is empty or absent returns exactly the
\* "Query parameter is required" error, issues no outbound request, hits no
\* cache entry and leaves the cache unchanged.
C2_EmptyQueryRejected ==
    [][ (Handles /\ args'.query = "")
        => /\ pc' = "idle"
           /\ response' = QueryRequired
           /\ calls' = <<>>
           /\ ~hit'
           /\ search_cache' = search_cache ]_vars

\* an empty query was rejected while the cache held an entry
C2_Witness ==
    /\ op = "api_search_endpoint" /\ args.query = ""
    /\ response = QueryRequired
    /\ DOMAIN search_cache # {}

\* the step is a request with a non-empty query (a call of perform_search)
Searches == Handles /\ args'.query # ""

\* the cache key of the request handled by the step
NextKey == CacheKey(search_api', args'.query, args'.language, args'.max_results)

\* the entry under the step's key is younger than the duration the step runs with
FreshBefore ==
    /\ NextKey \in DOMAIN search_cache
    /\ now - search_cache[NextKey].timestamp < cache_duration' * 60

\* C3 as stated: two calls of perform_search with the same (provider, query,
\* language, max_results) less than the configured cache duration apart return
\* identical responses, the second without any provider call.
C3_SameWithinDurationOfLastCall ==
    [][ (/\ Searches
         /\ Searched
         /\ search_api' = search_api
         /\ args' = args
         /\ cache_duration' = cache_duration
         /\ now - at < cache_duration' * 60)
        => /\ response' = response
           /\ calls' = <<>> ]_vars

\* C3, amended: a call of perform_search made less than the configured cache
\* duration after the entry of its key was stored returns the stored response
\* without any provider call; a call made when that age has reached the
\* duration, or when no entry exists, is a miss: it invokes the adapter afresh
\* and stores what the adapter returns under the key with the current time.
C3_SameWithinDurationOfStore ==
    [][ Searches
        => /\ FreshBefore
              => /\ hit'
                 /\ response' = search_cache[NextKey].data
                 /\ calls' = <<>>
           /\ (~FreshBefore /\ pc' = "idle")
              => /\ ~hit'
                 /\ NextKey \in DOMAIN search_cache'
                 /\ search_cache'[NextKey] = [timestamp |-> now, data |-> response'] ]_vars

\* a call 60 seconds after the store, under a 60-minute duration, was served
\* the stored response without any outbound request
C3_Witness ==
    /\ Searched /\ hit
    /\ cache_duration = 60
    /\ at - search_cache[LastKey].timestamp = 60
    /\ response = search_cache[LastKey].data
    /\ calls = <<>>

\* C4: a response served from the cache was stored strictly less than the
\* cache duration now configured ago, also after the duration was changed and
\* for a duration of 0 (then nothing is served from the cache); the hit
\* returns the stored data and leaves the entry and its timestamp as they were.
C4_HitsAreFresh ==
    [][ (Handles /\ hit')
        => /\ NextKey \in DOMAIN search_cache
           /\ now - search_cache[NextKey].timestamp < cache_duration' * 60
           /\ cache_duration' # 0
           /\ response' = search_cache[NextKey].data
           /\ search_cache' = search_cache ]_vars

\* a hit under a one-minute duration on an entry stored 30 seconds earlier
C4_Witness ==
    /\ Searched /\ hit
    /\ cache_duration = 1
    /\ at - search_cache[LastKey].timestamp = 30

\* C5: results_count equals the number of records in results in every
\* envelope a search returns: fresh from an adapter, mock, or from the cache.
C5_CountMatchesResults ==
    Searched => response.results_count = Len(response.results)

\* a mock envelope of ten records served from the cache
C5_Witness ==
    /\ Searched /\ hit
    /\ response.results_count = 10
    /\ Len(response.results) = 10
    /\ response.results[10].source = "mock"

\* C6 as stated: the query field of every success response equals the query
\* of the request that received it, responses served from the cache included.
C6_QueryEchoed ==
    Searched => response.query = args.query

\* the last operation returned an envelope built from an HTTP-200 payload
FromPayload == op # "none" /\ pc = "idle" /\ response.processing_time = "1.0s"

\* the last operation returned an envelope built by the mock generator
FromMock == op # "none" /\ pc = "idle" /\ response.processing_time = "0.1s"

\* C7 as stated: for any max_results and any HTTP-200 payload, the commercial
\* and the regional adapter return at most 10 result records.
C7_AtMostTenRecords ==
    (op \in {"search_google_api", "search_baidu_api"} /\ pc = "idle")
        => Len(response.results) <= 10

\* positions of the records of one credibility score
WithScore(results, score) ==
    {i \in 1..Len(results) : results[i].credibility_score = score}

\* the payload position of the topic a related-topic record was made from
TopicIndex(record) ==
    CHOOSE n \in 1..MaxTopics : record.url = "http://t" \o ToString(n)

\* C8 as stated: for any max_results and any HTTP-200 payload, the generic
\* adapter returns at most max_results - 1 related-topic records (none when
\* that is negative) plus at most one abstract record, the abstract first and
\* the related topics in payload order.
C8_AtMostMaxMinusOneTopics ==
    (op = "search_free_api" /\ FromPayload)
        => LET results == response.results
               topics == WithScore(results, "0.7")
               abstracts == WithScore(results, "0.8")
               limit == IF args.max_results - 1 < 0 THEN 0 ELSE args.max_results - 1
           IN  /\ Cardinality(topics) <= limit
               /\ abstracts \subseteq {1}
               /\ \A i, j \in topics :
                      i < j => TopicIndex(results[i]) < TopicIndex(results[j])

\* the i-th mock record of a query
IsMockRecord(record, i, query) ==
    /\ record.title = "Result " \o ToString(i) \o " for '" \o query \o "'"
    /\ record.url = "https://example.com/result" \o ToString(i)
    /\ record.source = "mock"
    /\ record.credibility_score = "0.5"

\* C9 as stated: the mock generator returns exactly min(max_results, 10)
\* records, the i-th titled "Result i for '<query>'" with url
\* https://example.com/result<i>, source "mock" and score 0.5, whatever the
\* language and the date.
C9_MockHasMinRecords ==
    FromMock
        => /\ Len(response.results) = Min(args.max_results, 10)
           /\ \A i \in 1..Len(response.results) :
                  IsMockRecord(response.results[i], i, args.query)

\* C9, amended: the mock generator returns exactly min(max_results, 10)
\* records, and none when max_results is negative; the i-th is titled
\* "Result i for '<query>'" with url https://example.com/result<i>, source
\* "mock" and score 0.5, whatever the language and the date.
C9_MockHasMinRecordsOrNone ==
    FromMock
        => /\ Len(response.results) =
                  (IF args.max_results < 0 THEN 0 ELSE Min(args.max_results, 10))
           /\ \A i \in 1..Len(response.results) :
                  IsMockRecord(response.results[i], i, args.query)

\* search_fallback asked for 50 records returned ten, the last one the tenth
C9_Witness ==
    /\ op = "search_fallback"
    /\ args = [query |-> "climate policy", language |-> "zh", max_results |-> 50]
    /\ at = 24 * 60 * 60
    /\ Len(response.results) = 10
    /\ response.results[10].title = "Result 10 for 'climate policy'"
    /\ response.results[10].url = "https://example.com/result10"

\* C10 as stated: every outbound request of a search carries the configured
\* timeout, so every search returns even when a provider never answers.
C10_EveryCallCarriesTimeout ==
    op = "api_search_endpoint"
        => /\ pc = "idle"
           /\ \A i \in 1..Len(calls) :
                  calls[i].has_timeout /\ calls[i].timeout = timeout

\* the last operation was a search that missed the cache and was routed to the
\* regional adapter with both of its credentials present
RegionalFetch ==
    /\ op = "api_search_endpoint" /\ args.query # "" /\ ~hit
    /\ search_api = "Baidu Search API"
    /\ outside.credentials.baidu_api_key # ""
    /\ outside.credentials.baidu_secret_key # ""

\* the token step of the last operation was answered with status 200
TokenAnswered200 ==
    outside.token_reply.kind = "http" /\ outside.token_reply.status_code = 200

\* a step of the last regional fetch failed: the token or the search request
\* raised or was answered with another status than 200, or a 200 body could
\* not be read
StepFailed ==
    \/ ~TokenAnswered200
    \/ outside.token_reply.body.kind # "dict"
    \/ outside.reply.kind # "http"
    \/ outside.reply.status_code # 200
    \/ outside.reply.body.kind # "dict"

\* C11: every cache miss routed to the regional adapter with credentials
\* present issues its own token request first, built from the credentials of
\* that fetch; the search request follows only a token response of status 200
\* and carries the token of that response; after a failed token step no search
\* request is issued; and a fetch that returns after a failure at either step
\* returns the mock results.
C11_TokenThenSearchOrMock ==
    RegionalFetch
        => /\ Len(calls) \in {1, 2}
           /\ calls[1] = BaiduTokenCall(Env(outside, timeout, at))
           /\ ~TokenAnswered200 => Len(calls) = 1
           /\ Len(calls) = 2
                  => /\ TokenAnswered200
                     /\ outside.token_reply.body.kind = "dict"
                     /\ calls[2].to = "regional"
                     /\ calls[2].params.access_token = AccessToken(outside.token_reply)
           /\ (pc = "idle" /\ StepFailed)
                  => response = search_fallback(args.query, args.language,
                                                args.max_results, Today(at))

\* two regional fetches in a row both returned provider records, and the second
\* one still made its own token request before its search request
C11_Witness ==
    /\ RegionalFetch /\ pc = "idle" /\ ncalls = 2
    /\ Len(calls) = 2 /\ calls[1].to = "token" /\ calls[2].to = "regional"
    /\ Cardinality(DOMAIN search_cache) = 2
    /\ \A k \in DOMAIN search_cache :
           /\ search_cache[k].data.results # <<>>
           /\ search_cache[k].data.results[1].source = "baidu"

\* the endpoints an adapter sends its requests to, and the source it stamps on
\* the records it builds from a payload
AdapterEndpoints(api) ==
    IF api = "Google Search API" THEN {"commercial"}
    ELSE IF api = "Baidu Search API" THEN {"token", "regional"}
    ELSE {"generic"}

AdapterSource(api) ==
    IF api = "Google Search API" THEN "google"
    ELSE IF api = "Baidu Search API" THEN "baidu"
    ELSE "duckduckgo"

\* C12: a search that hits the cache returns the stored response, issues no
\* outbound request and leaves the whole cache, timestamps included, as it
\* was; a search that misses sends requests only to the endpoints of the
\* adapter of the selected provider, returns what that adapter returns for the
\* request, and leaves that response under the request's key with the current
\* time, every other entry untouched.
C12_HitFramesMissStores ==
    [][ Searches
        => IF hit'
           THEN /\ NextKey \in DOMAIN search_cache
                /\ response' = search_cache[NextKey].data
                /\ calls' = <<>>
                /\ search_cache' = search_cache
           ELSE /\ \A i \in 1..Len(calls') :
                       calls'[i].to \in AdapterEndpoints(search_api')
                /\ pc' = "idle"
                       => /\ response' =
                                 Dispatch(search_api', args'.query, args'.language,
                                          args'.max_results,
                                          Env(outside', timeout', now)).result
                          /\ \A i \in 1..Len(response'.results) :
                                 response'.results[i].source
                                     \in {AdapterSource(search_api'), "mock"}
                          /\ DOMAIN search_cache' = DOMAIN search_cache \cup {NextKey}
                          /\ search_cache'[NextKey] = [timestamp |-> now, data |-> response']
                          /\ \A k \in DOMAIN search_cache \ {NextKey} :
                                 search_cache'[k] = search_cache[k] ]_vars

\* a miss under the commercial provider called the commercial endpoint once
\* and stored the provider's records under its key beside an older entry
C12_Witness ==
    /\ Searched /\ ~hit
    /\ search_api = "Google Search API"
    /\ Len(calls) = 1 /\ calls[1].to = "commercial"
    /\ response.results # <<>> /\ response.results[1].source = "google"
    /\ LastKey \in DOMAIN search_cache
    /\ search_cache[LastKey] = [timestamp |-> at, data |-> response]
    /\ \E k \in DOMAIN search_cache : k # LastKey /\ search_cache[k].timestamp < at

\* C13 as stated: the cache key identifies the tuple (provider, query,
\* language, max_results): no request with another tuple has the key of the
\* request just served, so an entry is only ever shared by requests that agree
\* on all four values.
C13_KeyIdentifiesTuple ==
    Searched
        => \A api \in Providers, request_data \in RequestData :
               (/\ Args(request_data).query # ""
                /\ CacheKey(api, Args(request_data).query, Args(request_data).language,
                            Args(request_data).max_results) = LastKey)
                   => /\ api = search_api
                      /\ Args(request_data) = args

\* the payload the last operation received
Payload == outside.reply.body.data

\* the field of a record is the payload's field, or "" when the payload lacks it
EmptyWhenAbsent(record, field, item, key) ==
    key \notin DOMAIN item => record[field] = ""

\* C14 as stated: every record an adapter builds from an HTTP-200 payload has
\* a title, a url and a snippet, and each of them is the empty string when the
\* payload lacks the field it is read from: items[i].title, link, snippet for
\* the commercial adapter, result[i].title, url, content for the regional
\* one, Heading and AbstractURL for the abstract record of the generic one.
C14_AbsentFieldsAreEmpty ==
    FromPayload
        => /\ \A i \in 1..Len(response.results) :
                  {"title", "url", "snippet"} \subseteq DOMAIN response.results[i]
           /\ op = "search_google_api"
                  => \A i \in 1..Len(response.results) :
                         LET item == Get(Payload, "items", <<>>)[i]
                             record == response.results[i]
                         IN  /\ EmptyWhenAbsent(record, "title", item, "title")
                             /\ EmptyWhenAbsent(record, "url", item, "link")
                             /\ EmptyWhenAbsent(record, "snippet", item, "snippet")
           /\ op = "search_baidu_api"
                  => \A i \in 1..Len(response.results) :
                         LET item == Get(Payload, "result", <<>>)[i]
                             record == response.results[i]
                         IN  /\ EmptyWhenAbsent(record, "title", item, "title")
                             /\ EmptyWhenAbsent(record, "url", item, "url")
                             /\ EmptyWhenAbsent(record, "snippet", item, "content")
           /\ (op = "search_free_api" /\ Get(Payload, "AbstractText", "") # "")
                  => /\ EmptyWhenAbsent(response.results[1], "title", Payload, "Heading")
                     /\ EmptyWhenAbsent(response.results[1], "url", Payload, "AbstractURL")

\* the envelope was built by the mock generator
IsMockEnvelope(data) ==
    /\ data.processing_time = "0.1s"
    /\ \A i \in 1..Len(data.results) : data.results[i].source = "mock"

\* the cache holds, under the key of the step's request, a mock envelope stored
\* less than the cache duration of the step ago
FreshMockBefore == FreshBefore /\ IsMockEnvelope(search_cache[NextKey].data)

\* C15: a search that misses and falls back to the mock generator stores the
\* mock envelope under its key with the current time, like any other
\* response; and a search whose key holds a mock envelope stored less than the
\* cache duration ago is answered with that envelope, issues no outbound
\* request and leaves the cache as it was, whatever credentials are
\* configured and whatever the provider would answer at that moment.
C15_MockIsCachedAndServed ==
    [][ Searches
        => /\ (~hit' /\ pc' = "idle" /\ IsMockEnvelope(response'))
                  => /\ NextKey \in DOMAIN search_cache'
                     /\ search_cache'[NextKey] = [timestamp |-> now, data |-> response']
           /\ FreshMockBefore
                  => /\ hit' /\ pc' = "idle"
                     /\ response' = search_cache[NextKey].data
                     /\ calls' = <<>>
                     /\ search_cache' = search_cache ]_vars

\* a request first answered with mock records for lack of credentials was
\* answered from the cache with the same mock records 30 seconds later, when
\* the credentials were configured and the provider answered 200
C15_Witness ==
    /\ Searched /\ hit
    /\ calls = <<>>
    /\ outside.credentials = AllCredentials
    /\ outside.token_reply = TokenGranted
    /\ outside.reply = Http(200, DictBody(PayloadA))
    /\ response = search_cache[LastKey].data
    /\ at - search_cache[LastKey].timestamp = 30
    /\ response.results # <<>>
    /\ IsMockEnvelope(response)

====
